---- MODULE Spec2Model ----
(***************************************************************************)
(* Provider resolution and runtime fallback of mission-alpha-viral-shorts: *)
(* PluginLoader (backend/app/core/plugin_loader.py) and                    *)
(* AIProviderWithFallback (backend/app/core/ai_fallback.py).               *)
(*                                                                         *)
(* A provider instance is a record [cls, id, ok]: cls is the name its      *)
(* class is registered under, id is its object identity among the live     *)
(* objects of its class, ok says whether its constructor returned          *)
(* normally.  An object that loses its last reference in the step that     *)
(* creates another one gives its identity back, so identities stay small.  *)
(* The environment env says which constructors return (the credentials     *)
(* the process was started with).  Whether a provider's generate_script    *)
(* returns or raises is decided anew at every call.                        *)
(***************************************************************************)
EXTENDS Integers, Sequences, FiniteSets, TLC

VARIABLES settings, cache, env, w, pc, idx, tried_providers, last_error,
          calls, outcome, lastLoad, thr, pipe

vars == <<settings, cache, env, w, pc, idx, tried_providers, last_error,
          calls, outcome, lastLoad, thr, pipe>>

(* ---------------------------- bounds ----------------------------------- *)

\* longest fallback list a configuration carries
MaxFallback == 2

\* most pieces a message of the classification runs is made of
MaxParts == 2

\* callers that run PluginLoader.load at the same time
NThreads == 2

(* ---------------------------- constants of the program ----------------- *)

\* plugin_loader.py PLUGIN_REGISTRY: capability -> registered provider names
PLUGIN_REGISTRY ==
  [content  |-> {"reddit", "quotes", "facts"},
   ai       |-> {"langchain", "crewai", "openai_direct", "groq", "huggingface"},
   tts      |-> {"gtts", "elevenlabs", "edge_tts"},
   video    |-> {"moviepy"},
   upload   |-> {"youtube", "none"},
   database |-> {"supabase", "sqlite"}]

\* config.py Settings: the attributes of the settings object
SettingsAttrs ==
  {"app", "logging", "content", "ai", "tts", "video", "upload", "database", "output"}

\* config.py: the sections of Settings that have a `provider` field
ProviderSections == {"content", "ai", "tts", "video", "upload", "database"}

\* provider names an ai configuration is drawn from; "openai" is not
\* registered under ai (the registry calls it "openai_direct")
Names == {"openai", "groq", "huggingface"}

\* capabilities a caller asks PluginLoader.load for in the model
Requested == {"ai", "tts", "app", "music"}

\* keys of PluginLoader._cache that can ever be stored in the model
CacheKeys == {"ai", "tts"}

(* ---------------------------- values ----------------------------------- *)

NoInst == [cls |-> "None", id |-> 0, ok |-> FALSE]
NoError == [kind |-> "None", by |-> "None", msg |-> <<>>]

Absent == [tag |-> "absent", str |-> "", list |-> <<>>]
StrFallback(s) == [tag |-> "str", str |-> s, list |-> <<>>]
ListFallback(l) == [tag |-> "list", str |-> "", list |-> l]

SeqsUpTo(S, n) == UNION {[1..k -> S] : k \in 0..n}

\* config.py 43: AIConfig.fallback is a list of names
ListFallbacks == {ListFallback(l) : l \in SeqsUpTo(Names, MaxFallback)}

\* every shape the chain builders handle: absent, a string, a list
FallbackValues ==
  {Absent} \cup {StrFallback(s) : s \in Names \cup {""}} \cup ListFallbacks

\* config.py TTSConfig: provider "gtts", no fallback field
TTSConfig == [provider |-> "gtts", fallback |-> Absent]

\* the providers whose constructor needs a credential, and the environments
Keyed == {"groq", "huggingface"}

Envs == [ctorOK : SUBSET Keyed]

NoWrapper ==
  [exists |-> FALSE, primary_provider_name |-> "None", providers_to_try |-> <<>>,
   cur |-> NoInst, cur_name |-> "None", settings_current |-> TRUE]

NoOutcome == [kind |-> "None", by |-> "None", tried |-> <<>>, errors |-> <<>>]

NoLoad == [kind |-> "None", plugin_type |-> "None", force |-> FALSE,
           chain |-> <<>>, visited |-> 0, inst |-> NoInst, hadEntry |-> FALSE,
           errors |-> <<>>]

\* the callers that run PluginLoader.load at the same time, and what one of
\* them holds: where it is in load, its arguments and locals, what it got
Threads == 1..NThreads

IdleThread ==
  [pc |-> "idle", force |-> FALSE, chain |-> <<>>, i |-> 0, obj |-> NoInst,
   ret |-> NoInst, err |-> "None"]

\* a run of the full pipeline: the stage it is at, whether that stage is
\* running, and the stages started so far with how each ended
NoPipe == [stage |-> "none", running |-> FALSE, log |-> <<>>]

(* ---------------------------- error messages -------------------------- *)

\* str(e): a message is the sequence of its characters
UpperCase == <<"A", "B", "C", "D", "E", "F", "G", "H", "I", "J", "K", "L", "M", "N", "O", "P", "Q", "R", "S", "T", "U", "V", "W", "X", "Y", "Z">>
LowerCase == <<"a", "b", "c", "d", "e", "f", "g", "h", "i", "j", "k", "l", "m", "n", "o", "p", "q", "r", "s", "t", "u", "v", "w", "x", "y", "z">>

\* str.lower(), one character
LowerChar(ch) ==
  IF \E k \in 1..Len(UpperCase) : UpperCase[k] = ch
  THEN LowerCase[CHOOSE k \in 1..Len(UpperCase) : UpperCase[k] = ch]
  ELSE ch

\* str.lower()
Lower(msg) == [k \in 1..Len(msg) |-> LowerChar(msg[k])]

\* x in msg
Contains(msg, x) ==
  \E k \in 0..(Len(msg) - Len(x)) : SubSeq(msg, k + 1, k + Len(x)) = x

\* ai_fallback.py 121-124: the substrings looked for
QuotaMarkers ==
  { <<"q", "u", "o", "t", "a">>,
    <<"r", "a", "t", "e", " ", "l", "i", "m", "i", "t">>,
    <<"4", "2", "9">>,
    <<"t", "o", "o", " ", "m", "a", "n", "y", " ", "r", "e", "q", "u", "e", "s", "t", "s">>,
    <<"r", "e", "s", "o", "u", "r", "c", "e", "_", "e", "x", "h", "a", "u", "s", "t", "e", "d">>,
    <<"e", "x", "c", "e", "e", "d", "e", "d">> }

\* ai_fallback.py 118-124: is_quota_error
IsQuotaErrorCaseSensitive(msg) == \E x \in QuotaMarkers : Contains(msg, x)

IsQuotaError(msg) == \E x \in QuotaMarkers : Contains(Lower(msg), x)

\* ai_fallback.py 126-129: what is told about the error
Reported(is_quota_error) == IF is_quota_error THEN "quota exceeded" ELSE "warning"

\* ai_fallback.py 131-132: continue, in both branches
StopUnlessQuota(i, is_quota_error) == IF is_quota_error THEN i + 1 ELSE MaxFallback + 2

AfterRaise(i, is_quota_error) == i + 1

\* ai_fallback.py 96-100: continue when the candidate could not be loaded;
\* the for loop takes the next name
RetryLoad(i) == i

AfterSkip(i) == i + 1

\* messages of the errors the providers' generate_script raises
TooManyRequests == <<"4", "2", "9", " ", "T", "o", "o", " ", "M", "a", "n", "y", " ", "R", "e", "q", "u", "e", "s", "t", "s">>
InvalidKey == <<"I", "n", "v", "a", "l", "i", "d", " ", "A", "P", "I", " ", "k", "e", "y">>
OpMessages == {TooManyRequests, InvalidKey}

\* pieces of messages, and the messages made of at most MaxParts pieces
Parts ==
  { <<"4", "2", "9">>,
    <<"4">>,
    <<"2", "9">>,
    <<"R", "a", "t", "e", " ">>,
    <<"r", "a", "t", "e", "_">>,
    <<"L", "i", "m", "i", "t">>,
    <<"Q", "U", "O", "T", "A">>,
    <<"R", "e", "s", "o", "u", "r", "c", "e", " ">>,
    <<"r", "e", "s", "o", "u", "r", "c", "e", "_">>,
    <<"e", "x", "h", "a", "u", "s", "t", "e", "d">>,
    <<"T", "o", "o", " ", "M", "a", "n", "y", " ", "R", "e", "q", "u", "e", "s", "t", "s">>,
    <<"E", "x", "c", "e", "e", "d", "e", "d">>,
    <<"t", "i", "m", "e", "o", "u", "t">>,
    <<" ">> }

RECURSIVE Join(_)
Join(ps) == IF ps = <<>> THEN <<>> ELSE Head(ps) \o Join(Tail(ps))

Messages == {Join(ps) : ps \in SeqsUpTo(Parts, MaxParts)}

(* ---------------------------- chain building --------------------------- *)

FilterOut(l, p) == SelectSeq(l, LAMBDA x : x # p)

\* plugin_loader.py 87-99
LoadChain(cfg) ==
  LET primary_provider == cfg.provider
      fb == cfg.fallback
  IN  IF fb.tag = "absent" THEN <<primary_provider>>
      ELSE IF fb.tag = "list"
           THEN <<primary_provider>> \o FilterOut(fb.list, primary_provider)
      ELSE IF fb.tag = "str" /\ fb.str # ""
           THEN IF fb.str # primary_provider
                THEN Append(<<primary_provider>>, fb.str)
                ELSE <<primary_provider>>
      ELSE <<primary_provider>>

\* ai_fallback.py 28-40 (an absent fallback reads as the empty list)
WrapperChain(cfg) ==
  LET primary_provider_name == cfg.provider
      fb == IF cfg.fallback.tag = "absent" THEN ListFallback(<<>>) ELSE cfg.fallback
  IN  IF fb.tag = "list"
      THEN <<primary_provider_name>> \o FilterOut(fb.list, primary_provider_name)
      ELSE IF fb.str # ""
           THEN IF fb.str # primary_provider_name
                THEN Append(<<primary_provider_name>>, fb.str)
                ELSE <<primary_provider_name>>
      ELSE <<primary_provider_name>>

(* ---------------------------- PluginLoader ----------------------------- *)

\* identities of the objects of plugin_type that outlive a load made by a
\* caller other than the wrapper: the wrapper's provider (the cache entry is
\* replaced by what the load constructs)
LiveIds(wr, plugin_type) == IF plugin_type = "ai" THEN {wr.cur.id} \ {0} ELSE {}

FreshId(live) == CHOOSE i \in 1..(Cardinality(live) + 1) : i \notin live

\* plugin_loader.py 129: plugin_class(provider_config); the constructor
\* returns normally iff the environment lets it (credentials present)
Construct(name, e, live) ==
  [cls |-> name, id |-> FreshId(live), ok |-> name \notin Keyed \/ name \in e.ctorOK]

\* plugin_loader.py 129-132: the store is reached only when the constructor
\* returned
StoreAlways(c, plugin_type, obj) == [c EXCEPT ![plugin_type] = obj]

StoreConstructed(c, plugin_type, obj) ==
  IF obj.ok THEN [c EXCEPT ![plugin_type] = obj] ELSE c

\* plugin_loader.py 76: plugin_type in cls._cache
InCache(c, plugin_type) == plugin_type \in DOMAIN c /\ c[plugin_type] # NoInst

\* the result of one PluginLoader.load call
LoadResult(kind, inst, c, chain, visited, errs) ==
  [kind |-> kind, inst |-> inst, cache |-> c, chain |-> chain,
   visited |-> visited, errors |-> errs]

\* what the RuntimeError of line 153-159 carries: only the last error
LastOnly(err) == IF err = NoError THEN <<>> ELSE <<err>>

\* plugin_loader.py 104-159: the loop over providers_to_try
RECURSIVE TryProviders(_, _, _, _, _, _, _)
TryProviders(plugin_type, chain, i, lerr, c, e, live) ==
  IF i > Len(chain)
  THEN LoadResult("RuntimeError", NoInst, c, chain, i - 1, LastOnly(lerr))
  ELSE LET provider_name == chain[i] IN
       IF plugin_type \notin DOMAIN PLUGIN_REGISTRY
       THEN TryProviders(plugin_type, chain, i + 1,
                         [kind |-> "ValueError", by |-> provider_name, msg |-> <<>>], c, e, live)
       ELSE IF provider_name \notin PLUGIN_REGISTRY[plugin_type]
       THEN TryProviders(plugin_type, chain, i + 1, lerr, c, e, live)
       ELSE LET plugin_instance == Construct(provider_name, e, live) IN
            IF ~plugin_instance.ok
            THEN TryProviders(plugin_type, chain, i + 1,
                              [kind |-> "ConstructionError", by |-> provider_name, msg |-> <<>>],
                              StoreConstructed(c, plugin_type, plugin_instance),
                              e, live)
            ELSE LoadResult("loaded", plugin_instance,
                            StoreConstructed(c, plugin_type, plugin_instance),
                            chain, i, <<>>)

\* plugin_loader.py 63-159: PluginLoader.load(plugin_type, force_reload)
LoadSurfacesAsExhausted(plugin_type, force_reload, c, s, e, live) ==
  IF InCache(c, plugin_type) /\ ~force_reload
  THEN LoadResult("hit", c[plugin_type], c, <<>>, 0, <<>>)
  ELSE IF plugin_type \notin SettingsAttrs \/ plugin_type \notin ProviderSections
  THEN TryProviders(plugin_type, <<"None">>, 1, NoError, c, e, live)
  ELSE TryProviders(plugin_type, LoadChain(s[plugin_type]), 1, NoError, c, e, live)

Load(plugin_type, force_reload, c, s, e, live) ==
  IF InCache(c, plugin_type) /\ ~force_reload
  THEN LoadResult("hit", c[plugin_type], c, <<>>, 0, <<>>)
  ELSE IF plugin_type \notin SettingsAttrs \/ plugin_type \notin ProviderSections
  THEN LoadResult("AttributeError", NoInst, c, <<>>, 0, <<>>)
  ELSE TryProviders(plugin_type, LoadChain(s[plugin_type]), 1, NoError, c, e, live)

\* plugin_loader.py 161-184: PluginLoader.load_specific(plugin_type,
\* provider_name); chain is the one name asked for, visited the number of
\* constructors run
LoadSpecificAndCache(plugin_type, provider_name, c, e, live) ==
  IF plugin_type \notin DOMAIN PLUGIN_REGISTRY
  THEN LoadResult("specific_unknown_type", NoInst, c, <<provider_name>>, 0, <<>>)
  ELSE IF provider_name \notin PLUGIN_REGISTRY[plugin_type]
  THEN LoadResult("specific_unknown_provider", NoInst, c, <<provider_name>>, 0, <<>>)
  ELSE LET plugin_instance == Construct(provider_name, e, live) IN
       IF plugin_instance.ok
       THEN LoadResult("specific_returned", plugin_instance,
                       [c EXCEPT ![plugin_type] = plugin_instance], <<provider_name>>, 1, <<>>)
       ELSE LoadResult("specific_raised", NoInst, c, <<provider_name>>, 1, <<>>)

LoadSpecific(plugin_type, provider_name, c, e, live) ==
  IF plugin_type \notin DOMAIN PLUGIN_REGISTRY
  THEN LoadResult("specific_unknown_type", NoInst, c, <<provider_name>>, 0, <<>>)
  ELSE IF provider_name \notin PLUGIN_REGISTRY[plugin_type]
  THEN LoadResult("specific_unknown_provider", NoInst, c, <<provider_name>>, 0, <<>>)
  ELSE LET plugin_instance == Construct(provider_name, e, live) IN
       IF plugin_instance.ok
       THEN LoadResult("specific_returned", plugin_instance, c, <<provider_name>>, 1, <<>>)
       ELSE LoadResult("specific_raised", NoInst, c, <<provider_name>>, 1, <<>>)

\* plugin_loader.py 186-190: cls._cache.clear()
ClearOnlyAi(c) == [c EXCEPT !["ai"] = NoInst]

Cleared(c) == [k \in DOMAIN c |-> NoInst]

\* ai_fallback.py 59: PluginLoader._cache.pop('ai', None)
Popped(c, plugin_type) == [c EXCEPT ![plugin_type] = NoInst]

(* ---------------------------- AIProviderWithFallback ------------------- *)

World(wr, c, s) == [w |-> wr, cache |-> c, settings |-> s]

\* ai_fallback.py 46-53: _load_primary
LoadPrimary(wr, c, s, e) ==
  LET r == Load("ai", FALSE, c, s, e, {}) IN
  IF r.kind \in {"hit", "loaded"}
  THEN World([wr EXCEPT !.cur = r.inst, !.cur_name = wr.primary_provider_name],
             r.cache, s)
  ELSE World([wr EXCEPT !.cur = NoInst], r.cache, s)

\* ai_fallback.py 55-78: _load_fallback; ok is its return value
\* self.settings is the object get_settings() returns unless reload_config
\* has replaced that object since (settings_current); the override then goes
\* to the wrapper's own old object, which PluginLoader.load does not read
LoadFallback(provider_name, wr, c, s, e) ==
  LET c1 == Popped(c, "ai")
      original_provider == s.ai.provider
      s1 == IF wr.settings_current THEN [s EXCEPT !.ai.provider = provider_name] ELSE s
      r  == Load("ai", TRUE, c1, s1, e, {})
  IN  IF r.kind \in {"hit", "loaded"}
      THEN [ok |-> TRUE,
            world |-> World([wr EXCEPT !.cur = r.inst, !.cur_name = provider_name],
                            r.cache,
                            [s1 EXCEPT !.ai.provider = original_provider])]
      ELSE [ok |-> FALSE, world |-> World(wr, r.cache, s1)]

\* ai_fallback.py 26-44: __init__
NewWrapperWorld(c, s, e) ==
  LET fresh == [exists |-> TRUE,
                primary_provider_name |-> s.ai.provider,
                providers_to_try |-> WrapperChain(s.ai),
                cur |-> NoInst, cur_name |-> "None", settings_current |-> TRUE]
  IN  LoadPrimary(fresh, c, s, e)

\* ai_fallback.py 91-100: the part of one loop iteration before the call;
\* go says whether the iteration reaches the call of line 106
BeforeCall(provider_name, wr, c, s, e) ==
  LET stay == World(wr, c, s)
      loaded == IF wr.cur_name = provider_name THEN [ok |-> TRUE, world |-> stay]
                ELSE IF provider_name = wr.primary_provider_name
                     THEN [ok |-> TRUE, world |-> LoadPrimary(wr, c, s, e)]
                     ELSE LoadFallback(provider_name, wr, c, s, e)
  IN  [go |-> loaded.ok /\ loaded.world.w.cur # NoInst, world |-> loaded.world]

(* ---------------------------- state machine ---------------------------- *)

Configs == [provider : Names, fallback : ListFallbacks]

Init ==
  /\ settings \in [ai : Configs, tts : {TTSConfig}]
  /\ cache = [k \in CacheKeys |-> NoInst]
  /\ env \in Envs
  /\ w = NoWrapper
  /\ pc = "idle"
  /\ idx = 0
  /\ tried_providers = <<>>
  /\ last_error = NoError
  /\ calls = <<>>
  /\ outcome = NoOutcome
  /\ lastLoad = NoLoad
  /\ thr = [t \in Threads |-> IdleThread]
  /\ pipe = NoPipe

Idle == pc = "idle"

NoInvocationChange == UNCHANGED <<pc, idx, tried_providers, last_error, calls, outcome>>

\* a caller's PluginLoader.load(plugin_type, force_reload)
LoadDirect(plugin_type, force_reload) ==
  /\ Idle
  /\ LET r == Load(plugin_type, force_reload, cache, settings, env, LiveIds(w, plugin_type)) IN
       /\ cache' = r.cache
       /\ lastLoad' = [kind |-> r.kind, plugin_type |-> plugin_type,
                       force |-> force_reload, chain |-> r.chain,
                       visited |-> r.visited, inst |-> r.inst,
                       hadEntry |-> InCache(cache, plugin_type),
                       errors |-> r.errors]
  /\ UNCHANGED <<settings, env, thr, pipe, w>>
  /\ NoInvocationChange

\* the capabilities and names load_specific is asked for
SpecificTypes == {"ai", "music"}
SpecificNames == {"groq", "openai"}

\* a caller's PluginLoader.load_specific(plugin_type, provider_name)
LoadSpecificDirect(plugin_type, provider_name) ==
  /\ Idle
  /\ LET live == IF plugin_type \in DOMAIN cache
                 THEN LiveIds(w, plugin_type) \cup ({cache[plugin_type].id} \ {0})
                 ELSE {}
         r == LoadSpecific(plugin_type, provider_name, cache, env, live)
     IN  /\ cache' = r.cache
         /\ lastLoad' = [kind |-> r.kind, plugin_type |-> plugin_type,
                         force |-> FALSE, chain |-> r.chain,
                         visited |-> r.visited, inst |-> r.inst,
                         hadEntry |-> InCache(cache, plugin_type),
                         errors |-> r.errors]
  /\ UNCHANGED <<settings, env, thr, pipe, w>>
  /\ NoInvocationChange

\* PluginLoader.clear_cache()
ClearCache ==
  /\ Idle
  /\ cache' = Cleared(cache)
  /\ lastLoad' = [NoLoad EXCEPT !.kind = "cleared",
                               !.hadEntry = \E k \in DOMAIN cache : InCache(cache, k)]
  /\ UNCHANGED <<settings, env, thr, pipe, w>>
  /\ NoInvocationChange

\* get_ai_provider() when no wrapper exists: AIProviderWithFallback()
NewWrapper ==
  /\ Idle
  /\ ~w.exists
  /\ LET nw == NewWrapperWorld(cache, settings, env) IN
       /\ w' = nw.w
       /\ cache' = nw.cache
       /\ settings' = nw.settings
  /\ lastLoad' = NoLoad
  /\ UNCHANGED <<env, thr, pipe, thr>>
  /\ NoInvocationChange

\* reset_ai_provider()
ResetWrapper ==
  /\ Idle
  /\ w.exists
  /\ w' = NoWrapper
  /\ lastLoad' = NoLoad
  /\ UNCHANGED <<settings, cache, env, thr, pipe>>
  /\ NoInvocationChange

\* config.py 176-180: reload_config(); the file may hold another ai section.
\* The settings object is a new one: a wrapper made before keeps the old one.
ReloadConfig(cfg) ==
  /\ Idle
  /\ settings' = [settings EXCEPT !.ai = cfg]
  /\ w' = IF w.exists THEN [w EXCEPT !.settings_current = FALSE] ELSE w
  /\ lastLoad' = NoLoad
  /\ UNCHANGED <<cache, env, thr, pipe>>
  /\ NoInvocationChange

\* generate_script is called: lines 86-87
GenStart ==
  /\ Idle
  /\ w.exists
  /\ pc' = "loop"
  /\ idx' = 1
  /\ tried_providers' = <<>>
  /\ last_error' = NoError
  /\ calls' = <<>>
  /\ outcome' = NoOutcome
  /\ lastLoad' = NoLoad
  /\ UNCHANGED <<settings, cache, env, thr, pipe, w>>

\* one iteration of the loop up to the call of the provider (lines 89-106)
GenAttempt ==
  /\ pc = "loop"
  /\ idx <= Len(w.providers_to_try)
  /\ LET provider_name == w.providers_to_try[idx]
         b == BeforeCall(provider_name, w, cache, settings, env)
     IN  /\ w' = b.world.w
         /\ cache' = b.world.cache
         /\ settings' = b.world.settings
         /\ IF b.go
            THEN /\ tried_providers' = Append(tried_providers, provider_name)
                 /\ calls' = Append(calls, [pos |-> idx,
                                            cand |-> provider_name,
                                            cls |-> b.world.w.cur.cls,
                                            id |-> b.world.w.cur.id,
                                            res |-> "pending",
                                            msg |-> <<>>,
                                            report |-> "None"])
                 /\ pc' = "calling"
                 /\ idx' = idx
            ELSE /\ idx' = AfterSkip(idx)
                 /\ UNCHANGED <<tried_providers, calls, pc>>
  /\ UNCHANGED <<env, thr, pipe, last_error, outcome, lastLoad>>

\* the provider's generate_script returns (lines 106-114)
GenOpReturnsAndGoesOn ==
  /\ pc = "calling"
  /\ calls' = [calls EXCEPT ![Len(calls)].res = "returned"]
  /\ idx' = idx + 1
  /\ pc' = "loop"
  /\ UNCHANGED <<settings, cache, env, thr, pipe, w, tried_providers, last_error, outcome,
                 lastLoad>>

GenOpReturns ==
  /\ pc = "calling"
  /\ outcome' = [kind |-> "ok", by |-> w.cur.cls, tried |-> tried_providers,
                 errors |-> <<>>]
  /\ calls' = [calls EXCEPT ![Len(calls)].res = "returned"]
  /\ pc' = "done"
  /\ UNCHANGED <<settings, cache, env, thr, pipe, w, idx, tried_providers, last_error, lastLoad>>

\* the provider's generate_script raises an error whose message is msg
\* (lines 116-132)
Raises(msg) ==
  /\ pc = "calling"
  /\ last_error' = [kind |-> "OperationError", by |-> w.cur.cls, msg |-> msg]
  /\ calls' = [calls EXCEPT ![Len(calls)].res = "raised",
                            ![Len(calls)].msg = msg,
                            ![Len(calls)].report = Reported(IsQuotaError(msg))]
  /\ idx' = AfterRaise(idx, IsQuotaError(msg))
  /\ pc' = "loop"
  /\ UNCHANGED <<settings, cache, env, thr, pipe, w, tried_providers, outcome, lastLoad>>

GenOpRaises == \E msg \in OpMessages : Raises(msg)

\* ai_fallback.py 134-140: the one error raised when every provider failed;
\* it names the providers tried and carries the last error only
ReraiseLast(tried, lerr) ==
  [kind |-> IF lerr = NoError THEN "RuntimeError" ELSE lerr.kind, by |-> lerr.by,
   tried |-> tried, errors |-> LastOnly(lerr)]

AllProvidersFailed(tried, lerr) ==
  [kind |-> "RuntimeError", by |-> "None", tried |-> tried, errors |-> LastOnly(lerr)]

\* ai_fallback.py 116: except Exception; asyncio.CancelledError is a
\* BaseException and no Exception
CaughtAll(exc) == TRUE

Caught(exc) == exc # "CancelledError"

\* the invocation is cancelled while it awaits the provider's generate_script
\* (line 106): CancelledError is raised at the await
GenOpCancelled ==
  /\ pc = "calling"
  /\ calls' = [calls EXCEPT ![Len(calls)].res = "cancelled"]
  /\ IF Caught("CancelledError")
     THEN /\ last_error' = [kind |-> "CancelledError", by |-> w.cur.cls, msg |-> <<>>]
          /\ idx' = AfterRaise(idx, IsQuotaError(<<>>))
          /\ pc' = "loop"
          /\ UNCHANGED outcome
     ELSE /\ outcome' = [kind |-> "CancelledError", by |-> w.cur.cls,
                         tried |-> tried_providers, errors |-> <<>>]
          /\ pc' = "done"
          /\ UNCHANGED <<idx, last_error>>
  /\ UNCHANGED <<settings, cache, env, thr, pipe, w, tried_providers, lastLoad>>

\* the loop ends without a result (lines 134-140)
GenExhausted ==
  /\ pc = "loop"
  /\ idx > Len(w.providers_to_try)
  /\ outcome' = AllProvidersFailed(tried_providers, last_error)
  /\ pc' = "done"
  /\ UNCHANGED <<settings, cache, env, thr, pipe, w, idx, tried_providers, last_error,
                 calls, lastLoad>>

\* the caller has taken the result or the error
GenDone ==
  /\ pc = "done"
  /\ pc' = "idle"
  /\ idx' = 0
  /\ tried_providers' = <<>>
  /\ last_error' = NoError
  /\ calls' = <<>>
  /\ outcome' = NoOutcome
  /\ UNCHANGED <<settings, cache, env, thr, pipe, w, lastLoad>>

\* test_full_pipeline.py 78-79: tts_provider = PluginLoader.load('tts') and
\* the call of its text_to_speech, which returns
TextToSpeechReturns ==
  /\ Idle
  /\ LET r == Load("tts", FALSE, cache, settings, env, {}) IN
       /\ r.kind \in {"hit", "loaded"}
       /\ cache' = r.cache
       /\ outcome' = [kind |-> "ok", by |-> r.inst.cls, tried |-> <<>>, errors |-> <<>>]
  /\ pc' = "tts_done"
  /\ lastLoad' = NoLoad
  /\ UNCHANGED <<settings, env, thr, pipe, w, idx, tried_providers, last_error, calls>>

\* the same, the call of text_to_speech raising: nothing is between the
\* provider's exception and the caller
TextToSpeechRaises ==
  /\ Idle
  /\ LET r == Load("tts", FALSE, cache, settings, env, {}) IN
       /\ r.kind \in {"hit", "loaded"}
       /\ cache' = r.cache
       /\ outcome' = [kind |-> "OperationError", by |-> r.inst.cls, tried |-> <<>>,
                      errors |-> <<>>]
  /\ pc' = "tts_done"
  /\ lastLoad' = NoLoad
  /\ UNCHANGED <<settings, env, thr, pipe, w, idx, tried_providers, last_error, calls>>

\* the caller has taken the audio or the error
TextToSpeechDone ==
  /\ pc = "tts_done"
  /\ pc' = "idle"
  /\ outcome' = NoOutcome
  /\ UNCHANGED <<settings, cache, env, thr, pipe, w, idx, tried_providers, last_error,
                 calls, lastLoad>>

Next ==
  \/ \E plugin_type \in Requested, force_reload \in BOOLEAN :
       LoadDirect(plugin_type, force_reload)
  \/ \E plugin_type \in SpecificTypes, provider_name \in SpecificNames :
       LoadSpecificDirect(plugin_type, provider_name)
  \/ TextToSpeechReturns
  \/ TextToSpeechRaises
  \/ TextToSpeechDone
  \/ ClearCache
  \/ NewWrapper
  \/ ResetWrapper
  \/ GenStart
  \/ GenAttempt
  \/ GenOpReturns
  \/ GenOpRaises
  \/ GenExhausted
  \/ GenDone

Spec == Init /\ [][Next]_vars

TypeOK ==
  /\ pc \in {"idle", "loop", "calling", "done", "tts_done"}
  /\ env \in Envs
  /\ \A k \in CacheKeys : cache[k] = NoInst \/ cache[k].cls \in PLUGIN_REGISTRY[k]

(* ---------------------------- chain building on its own ---------------- *)

\* every shape of the fallback field, then the two chain builders are run:
\* by AIProviderWithFallback() and by a PluginLoader.load that constructs
ChainsInit ==
  /\ settings \in [ai : [provider : Names, fallback : FallbackValues],
                   tts : {TTSConfig}]
  /\ cache = [k \in CacheKeys |-> NoInst]
  /\ env \in Envs
  /\ w = NoWrapper
  /\ pc = "idle"
  /\ idx = 0
  /\ tried_providers = <<>>
  /\ last_error = NoError
  /\ calls = <<>>
  /\ outcome = NoOutcome
  /\ lastLoad = NoLoad
  /\ thr = [t \in Threads |-> IdleThread]
  /\ pipe = NoPipe

ChainsNext ==
  \/ NewWrapper
  \/ \E force_reload \in BOOLEAN : LoadDirect("ai", force_reload)

SpecChains == ChainsInit /\ [][ChainsNext]_vars

(* ---------------------------- the error handler on its own ------------- *)

\* a wrapper whose only provider, groq, has been loaded and is being called;
\* the call then raises an error with any of the messages
ClassifyInit ==
  LET s0 == [ai |-> [provider |-> "groq", fallback |-> ListFallback(<<>>)],
             tts |-> TTSConfig]
      e0 == [ctorOK |-> Keyed]
      nw == NewWrapperWorld([k \in CacheKeys |-> NoInst], s0, e0)
      b  == BeforeCall("groq", nw.w, nw.cache, nw.settings, e0)
  IN  /\ settings = b.world.settings
      /\ cache = b.world.cache
      /\ env = e0
      /\ w = b.world.w
      /\ pc = "calling"
      /\ idx = 1
      /\ tried_providers = <<"groq">>
      /\ last_error = NoError
      /\ calls = <<[pos |-> 1, cand |-> "groq", cls |-> b.world.w.cur.cls,
                    id |-> b.world.w.cur.id, res |-> "pending", msg |-> <<>>,
                    report |-> "None"]>>
      /\ outcome = NoOutcome
      /\ lastLoad = NoLoad
      /\ thr = [t \in Threads |-> IdleThread]
      /\ pipe = NoPipe
  /\ thr = [t \in Threads |-> IdleThread]
  /\ pipe = NoPipe

ClassifyNext ==
  \/ \E msg \in Messages : Raises(msg)
  \/ GenExhausted
  \/ GenDone

SpecClassify == ClassifyInit /\ [][ClassifyNext]_vars

(* ---------------------------- concurrent callers ----------------------- *)

\* Several threads call PluginLoader.load('ai', force_reload) and
\* PluginLoader.clear_cache() at the same time.  A step is one access to
\* _cache or the run of one constructor up to the store that follows it;
\* nothing shared is touched between the return of a constructor and the
\* store of line 132.

ThreadConfigs == [provider : Names, fallback : {ListFallback(l) : l \in SeqsUpTo(Names, 1)}]

\* identities of all the objects some thread or the cache refers to
AllLive(c, th) ==
  ({c.ai.id} \cup {th[u].obj.id : u \in Threads} \cup {th[u].ret.id : u \in Threads}) \ {0}

OnlyCacheAndThread(t) ==
  /\ \A u \in Threads \ {t} : thr'[u] = thr[u]
  /\ UNCHANGED <<settings, env, w, pc, idx, tried_providers, last_error, calls,
                 outcome, lastLoad, pipe>>

\* plugin_loader.py 76: the test of the cache
TLoad(t, force_reload) ==
  /\ thr[t].pc = "idle"
  /\ thr' = [thr EXCEPT ![t] =
       IF InCache(cache, "ai") /\ ~force_reload
       THEN [IdleThread EXCEPT !.pc = "fetch", !.force = force_reload]
       ELSE [IdleThread EXCEPT !.pc = "next", !.force = force_reload,
                               !.chain = LoadChain(settings.ai), !.i = 1]]
  /\ UNCHANGED cache
  /\ OnlyCacheAndThread(t)

\* plugin_loader.py 78: return cls._cache[plugin_type]; a KeyError when the
\* entry has been removed since the test
TFetch(t) ==
  /\ thr[t].pc = "fetch"
  /\ thr' = [thr EXCEPT ![t] =
       IF InCache(cache, "ai")
       THEN [@ EXCEPT !.pc = "returned", !.ret = cache.ai]
       ELSE [@ EXCEPT !.pc = "raised", !.err = "KeyError"]]
  /\ UNCHANGED cache
  /\ OnlyCacheAndThread(t)

\* plugin_loader.py 104-129: the next provider of the loop, up to the start
\* of its constructor; the object exists and is not yet initialised
TNext(t) ==
  /\ thr[t].pc = "next"
  /\ LET me == thr[t] IN
     thr' = [thr EXCEPT ![t] =
       IF me.i > Len(me.chain)
       THEN [me EXCEPT !.pc = "raised", !.err = "RuntimeError"]
       ELSE IF me.chain[me.i] \notin PLUGIN_REGISTRY["ai"]
       THEN [me EXCEPT !.i = me.i + 1]
       ELSE [me EXCEPT !.pc = "ctor",
                       !.obj = [Construct(me.chain[me.i], env, AllLive(cache, thr))
                                  EXCEPT !.ok = FALSE]]]
  /\ UNCHANGED cache
  /\ OnlyCacheAndThread(t)

\* plugin_loader.py 129-144 and 146-150: the constructor returns, the instance
\* is stored and returned; or the constructor raises and the loop goes on
TCtorEnds(t) ==
  /\ thr[t].pc = "ctor"
  /\ LET me == thr[t]
         plugin_instance == [me.obj EXCEPT !.ok = Construct(me.obj.cls, env, {}).ok]
     IN  /\ cache' = StoreConstructed(cache, "ai", plugin_instance)
         /\ thr' = [thr EXCEPT ![t] =
              IF plugin_instance.ok
              THEN [me EXCEPT !.pc = "returned", !.obj = NoInst, !.ret = plugin_instance]
              ELSE [me EXCEPT !.pc = "next", !.obj = NoInst, !.i = me.i + 1]]
  /\ OnlyCacheAndThread(t)

\* the caller has taken the instance or the error
TEnd(t) ==
  /\ thr[t].pc \in {"returned", "raised"}
  /\ thr' = [thr EXCEPT ![t] = IdleThread]
  /\ UNCHANGED cache
  /\ OnlyCacheAndThread(t)

\* plugin_loader.py 186-190: clear_cache by a thread that is not in load
TClearCache(t) ==
  /\ thr[t].pc = "idle"
  /\ InCache(cache, "ai")
  /\ cache' = Cleared(cache)
  /\ UNCHANGED thr
  /\ OnlyCacheAndThread(t)

ThreadsInit ==
  /\ settings \in [ai : ThreadConfigs, tts : {TTSConfig}]
  /\ cache = [k \in CacheKeys |-> NoInst]
  /\ env \in Envs
  /\ w = NoWrapper
  /\ pc = "idle"
  /\ idx = 0
  /\ tried_providers = <<>>
  /\ last_error = NoError
  /\ calls = <<>>
  /\ outcome = NoOutcome
  /\ lastLoad = NoLoad
  /\ thr = [t \in Threads |-> IdleThread]
  /\ pipe = NoPipe

ThreadsNext ==
  \E t \in Threads :
    \/ \E force_reload \in BOOLEAN : TLoad(t, force_reload)
    \/ TFetch(t)
    \/ TNext(t)
    \/ TCtorEnds(t)
    \/ TEnd(t)
    \/ TClearCache(t)

SpecThreads == ThreadsInit /\ [][ThreadsNext]_vars

(* ---------------------------- configuration reloads -------------------- *)

\* the ai sections the configuration file holds over time
ReloadConfigs ==
  [provider : {"groq", "huggingface"},
   fallback : {ListFallback(<<>>), ListFallback(<<"groq">>), ListFallback(<<"huggingface">>)}]

ReloadInit ==
  /\ settings \in [ai : ReloadConfigs, tts : {TTSConfig}]
  /\ cache = [k \in CacheKeys |-> NoInst]
  /\ env \in Envs
  /\ w = NoWrapper
  /\ pc = "idle"
  /\ idx = 0
  /\ tried_providers = <<>>
  /\ last_error = NoError
  /\ calls = <<>>
  /\ outcome = NoOutcome
  /\ lastLoad = NoLoad
  /\ thr = [t \in Threads |-> IdleThread]
  /\ pipe = NoPipe

ReloadNext ==
  \/ \E cfg \in ReloadConfigs : ReloadConfig(cfg)
  \/ \E plugin_type \in CacheKeys, force_reload \in BOOLEAN :
       LoadDirect(plugin_type, force_reload)
  \/ NewWrapper
  \/ ResetWrapper
  \/ GenStart
  \/ GenAttempt
  \/ GenOpReturns
  \/ GenOpRaises
  \/ GenExhausted
  \/ GenDone

SpecReload == ReloadInit /\ [][ReloadNext]_vars

(* ---------------------------- cancelled invocations -------------------- *)

\* the wrapper and its invocations, any of which may be cancelled during a call
CancelNext ==
  \/ NewWrapper
  \/ GenStart
  \/ GenAttempt
  \/ GenOpReturns
  \/ GenOpRaises
  \/ GenOpCancelled
  \/ GenExhausted
  \/ GenDone

SpecCancel == Init /\ [][CancelNext]_vars

(* ---------------------------- the full pipeline ------------------------ *)

\* test_full_pipeline.py 56-110: main() is straight-line code with no handler:
\* content, ai (through the wrapper), tts, video, database.  A stage is the
\* load of its provider and the awaited call of its operation.
Stages == <<"content", "ai", "tts", "video", "database">>

StageIndex(stage) == CHOOSE k \in 1..Len(Stages) : Stages[k] = stage

\* how a stage can end: content may come back empty (line 61)
StageResults(stage) ==
  IF stage = "content" THEN {"ok", "empty", "raised"} ELSE {"ok", "raised"}

\* test_full_pipeline.py 61-63 and the absence of any try: where main() goes
\* when a stage has ended
ContinueWhenEmpty(stage, result) ==
  IF result = "raised" THEN "failed"
  ELSE IF stage = "database" THEN "finished"
  ELSE Stages[StageIndex(stage) + 1]

NextStage(stage, result) ==
  IF result = "raised" THEN "failed"
  ELSE IF result = "empty" THEN "stopped"
  ELSE IF stage = "database" THEN "finished"
  ELSE Stages[StageIndex(stage) + 1]

Started(stage) == Append(pipe.log, [stage |-> stage, result |-> "running"])

StageEnded(result) == [pipe.log EXCEPT ![Len(pipe.log)].result = result]

\* a stage other than ai starts: PluginLoader.load(stage) and the call
PipeStageStart ==
  /\ Idle
  /\ pipe.stage \in {"content", "tts", "video", "database"}
  /\ ~pipe.running
  /\ pipe' = [pipe EXCEPT !.running = TRUE, !.log = Started(pipe.stage)]
  /\ cache' = IF pipe.stage = "tts"
              THEN Load("tts", FALSE, cache, settings, env, {}).cache
              ELSE cache
  /\ UNCHANGED <<settings, env, thr, w, lastLoad>>
  /\ NoInvocationChange

\* the stage's load or call returns or raises
PipeStageEnd(result) ==
  /\ Idle
  /\ pipe.stage \in {"content", "tts", "video", "database"}
  /\ pipe.running
  /\ result \in StageResults(pipe.stage)
  /\ pipe' = [stage |-> NextStage(pipe.stage, result), running |-> FALSE,
              log |-> StageEnded(result)]
  /\ UNCHANGED <<settings, cache, env, thr, w, lastLoad>>
  /\ NoInvocationChange

\* lines 69-72: get_ai_provider(), making the wrapper if there is none, and
\* the call of its generate_script
PipeAiStart ==
  /\ Idle
  /\ pipe.stage = "ai"
  /\ ~pipe.running
  /\ LET nw == IF w.exists THEN World(w, cache, settings)
               ELSE NewWrapperWorld(cache, settings, env)
     IN  /\ w' = nw.w
         /\ cache' = nw.cache
         /\ settings' = nw.settings
  /\ pipe' = [pipe EXCEPT !.running = TRUE, !.log = Started("ai")]
  /\ pc' = "loop"
  /\ idx' = 1
  /\ tried_providers' = <<>>
  /\ last_error' = NoError
  /\ calls' = <<>>
  /\ outcome' = NoOutcome
  /\ lastLoad' = NoLoad
  /\ UNCHANGED <<env, thr>>

\* generate_script has returned or raised
PipeAiEnd ==
  /\ pc = "done"
  /\ pipe.stage = "ai"
  /\ pipe.running
  /\ LET result == IF outcome.kind = "ok" THEN "ok" ELSE "raised" IN
     pipe' = [stage |-> NextStage("ai", result), running |-> FALSE,
              log |-> StageEnded(result)]
  /\ pc' = "idle"
  /\ idx' = 0
  /\ tried_providers' = <<>>
  /\ last_error' = NoError
  /\ calls' = <<>>
  /\ outcome' = NoOutcome
  /\ UNCHANGED <<settings, cache, env, thr, w, lastLoad>>

PipelineInit ==
  /\ settings \in [ai : Configs, tts : {TTSConfig}]
  /\ cache = [k \in CacheKeys |-> NoInst]
  /\ env \in Envs
  /\ w = NoWrapper
  /\ pc = "idle"
  /\ idx = 0
  /\ tried_providers = <<>>
  /\ last_error = NoError
  /\ calls = <<>>
  /\ outcome = NoOutcome
  /\ lastLoad = NoLoad
  /\ thr = [t \in Threads |-> IdleThread]
  /\ pipe = [stage |-> "content", running |-> FALSE, log |-> <<>>]

PipelineNext ==
  \/ PipeStageStart
  \/ \E result \in {"ok", "empty", "raised"} : PipeStageEnd(result)
  \/ PipeAiStart
  \/ GenAttempt
  \/ GenOpReturns
  \/ GenOpRaises
  \/ GenExhausted
  \/ PipeAiEnd

SpecPipeline == PipelineInit /\ [][PipelineNext]_vars

(* ---------------------------- invocations that are let run ------------- *)

\* the wrapper's invocations and direct loads of ai; an iteration that can
\* run does run, and a call that is awaited returns or raises
LiveNext ==
  \/ NewWrapper
  \/ \E force_reload \in BOOLEAN : LoadDirect("ai", force_reload)
  \/ GenStart
  \/ GenAttempt
  \/ GenOpReturns
  \/ GenOpRaises
  \/ GenExhausted
  \/ GenDone

SpecLive ==
  /\ Init
  /\ [][LiveNext]_vars
  /\ WF_vars(GenAttempt)
  /\ WF_vars(GenOpReturns \/ GenOpRaises)
  /\ WF_vars(GenExhausted)

(* ---------------------------- claims ----------------------------------- *)

AiChain == w.providers_to_try

Ended == pc = "done"

\* the fallback field read as a list of names
AsList(fb) ==
  IF fb.tag = "list" THEN fb.list
  ELSE IF fb.tag = "str" /\ fb.str # "" THEN <<fb.str>>
  ELSE <<>>

\* l without the later occurrences of a name
RECURSIVE Dedup(_)
Dedup(l) ==
  IF l = <<>> THEN <<>>
  ELSE LET front == Dedup(SubSeq(l, 1, Len(l) - 1))
           x == l[Len(l)]
       IN  IF \E i \in 1..Len(front) : front[i] = x THEN front ELSE Append(front, x)

\* [p] + dedup(f \ {p})
DedupChain(cfg) == <<cfg.provider>> \o Dedup(FilterOut(AsList(cfg.fallback), cfg.provider))

\* a load that went through the chain of line 88-99
LoadBuiltChain == lastLoad.kind \in {"loaded", "RuntimeError"}

\* C1: the chain built by AIProviderWithFallback.__init__ and by
\* PluginLoader.load is [p] followed by the fallback names in order, without
\* p and without later duplicates.
C1_ChainIsDedup ==
  /\ w.exists => w.providers_to_try = DedupChain(settings.ai)
  /\ (LoadBuiltChain /\ lastLoad.plugin_type = "ai") =>
        lastLoad.chain = DedupChain(settings.ai)

\* candidate name n cannot be constructed by the registry
FailsAtConstruction(n) ==
  n \notin PLUGIN_REGISTRY.ai \/ (n \in Keyed /\ n \notin env.ctorOK)

\* the implementation registered under n raised in a call of this invocation
RaisedInCall(n) == \E i \in 1..Len(calls) : calls[i].cls = n /\ calls[i].res = "raised"

CandidateFailed(n) == FailsAtConstruction(n) \/ RaisedInCall(n)

\* position k of the chain holds the first candidate whose implementation
\* returned the result, every earlier candidate having failed
SucceededAt(k) ==
  /\ Ended /\ outcome.kind = "ok"
  /\ k \in 1..Len(AiChain)
  /\ AiChain[k] = outcome.by
  /\ \A j \in 1..(k - 1) : AiChain[j] # outcome.by /\ CandidateFailed(AiChain[j])

\* C2: when candidates 1..k-1 fail and candidate k succeeds, the provider
\* reported as serving is candidate k and the attempt history is exactly the
\* first k candidates in order.
C2_ServedByKthWithKEntries ==
  \A k \in 1..(MaxFallback + 1) :
     SucceededAt(k) =>
        /\ w.cur_name = AiChain[k]
        /\ outcome.tried = SubSeq(AiChain, 1, k)

\* C3: an exhausted invocation or load reports one history entry per
\* candidate of the chain, in chain order, each with its own error.
C3_ExhaustedHistoryComplete ==
  /\ (Ended /\ outcome.kind = "RuntimeError") =>
        /\ outcome.tried = AiChain
        /\ Len(outcome.errors) = Len(AiChain)
  /\ lastLoad.kind = "RuntimeError" => Len(lastLoad.errors) = Len(lastLoad.chain)

\* C4: within one invocation no provider implementation is invoked twice.
C4_OneAttemptPerProvider ==
  \A i, j \in 1..Len(calls) : i < j => calls[i].cls # calls[j].cls

\* the primary name is registered and its constructor returns
PrimaryConstructs == ~FailsAtConstruction(w.primary_provider_name)

\* C5: an invocation starts at candidate 0 and, when the primary can be
\* constructed, makes its first call on the primary's implementation,
\* whatever earlier invocations left behind.
C5_FirstCallOnPrimary ==
  (Len(calls) >= 1 /\ PrimaryConstructs) =>
     /\ calls[1].cand = AiChain[1]
     /\ calls[1].cls = w.primary_provider_name

\* C6: the instance the wrapper holds is an instance of the class registered
\* under _current_provider_name.
C6_InstanceMatchesName ==
  (w.exists /\ w.cur # NoInst) => w.cur.cls = w.cur_name

\* the primary's implementation returned the result of this invocation
PrimaryServed ==
  /\ Ended /\ outcome.kind = "ok"
  /\ outcome.by = w.primary_provider_name

\* C7: when the primary's operation succeeds, exactly one operation was
\* invoked and the cache entry for ai is the instance that served the call.
C7_PrimaryOnceAndCached ==
  PrimaryServed => (Len(calls) = 1 /\ cache.ai = w.cur)

\* C8: every cache entry is an instance whose constructor returned normally.
C8_CacheHoldsConstructed ==
  \A k \in DOMAIN cache : InCache(cache, k) => cache[k].ok

\* a load skipped a candidate whose constructor raised and stored a later one
C8_Witness ==
  /\ lastLoad.kind = "loaded"
  /\ \E i \in 1..(lastLoad.visited - 1) :
        lastLoad.chain[i] \in Keyed \ env.ctorOK
  /\ cache.ai = lastLoad.inst

\* a load by a caller has just returned or raised
JustLoaded(l) == l.kind \in {"hit", "loaded", "RuntimeError", "AttributeError"}

\* C9: after clear_cache no capability has a cached instance, so the next
\* load does not find one; after the pop of _load_fallback a failed fallback
\* load leaves no ai entry; clearing a cleared cache changes nothing.
C9_InvalidationTotalIdempotent ==
  [][ /\ lastLoad'.kind = "cleared" => \A k \in DOMAIN cache' : ~InCache(cache', k)
      /\ (lastLoad.kind = "cleared" /\ JustLoaded(lastLoad')) =>
            /\ ~lastLoad'.hadEntry
            /\ lastLoad'.kind # "hit"
      /\ (pc = "loop" /\ pc' = "loop" /\ idx' = idx + 1
            /\ idx <= Len(AiChain) /\ AiChain[idx] # w.cur_name
            /\ AiChain[idx] # w.primary_provider_name) =>
            ~InCache(cache', "ai")
      /\ (lastLoad.kind = "cleared" /\ lastLoad'.kind = "cleared") =>
            UNCHANGED <<cache, settings, w>>
    ]_vars

\* clear_cache dropped an entry and the next load constructed a new instance
C9_Witness ==
  /\ lastLoad.kind = "loaded"
  /\ lastLoad.plugin_type = "ai"
  /\ ~lastLoad.hadEntry
  /\ ~lastLoad.force
  /\ w.cur # NoInst
  /\ cache.ai = lastLoad.inst
  /\ cache.ai.cls = w.cur.cls
  /\ cache.ai.id # w.cur.id

\* C10: a load for a capability that is not registered raises at once: no
\* candidate is visited and the error is not the exhausted-chain error.
C10_UnknownCapabilityImmediate ==
  (JustLoaded(lastLoad) /\ lastLoad.plugin_type \notin DOMAIN PLUGIN_REGISTRY) =>
     /\ lastLoad.kind = "AttributeError"
     /\ lastLoad.visited = 0
     /\ lastLoad.chain = <<>>

\* load was asked for a capability the settings do not know, and for one the
\* settings know but that has no provider
C10_Witness ==
  /\ lastLoad.kind = "AttributeError"
  /\ lastLoad.plugin_type \in {"music", "app"}
  /\ lastLoad.force

\* candidate name n of capability ai is registered and its constructor returns
Constructs(n) == ~FailsAtConstruction(n)

\* the first name of chain that constructs, "None" when there is none
FirstConstructible(chain) ==
  IF \E i \in 1..Len(chain) : Constructs(chain[i])
  THEN chain[CHOOSE i \in 1..Len(chain) :
               Constructs(chain[i]) /\ \A j \in 1..(i - 1) : ~Constructs(chain[j])]
  ELSE "None"

\* the ai primary cannot be constructed and some fallback can
MisconfiguredPrimary ==
  /\ ~Constructs(settings.ai.provider)
  /\ FirstConstructible(LoadChain(settings.ai)) # "None"

\* C11: with a primary that is unregistered or fails to construct and a
\* fallback that constructs, PluginLoader.load('ai') raises nothing and
\* returns and caches an instance of the first fallback that constructs.
C11_MisconfiguredPrimaryFallsBack ==
  (JustLoaded(lastLoad) /\ lastLoad.plugin_type = "ai" /\ MisconfiguredPrimary) =>
     /\ lastLoad.kind \in {"hit", "loaded"}
     /\ lastLoad.inst.cls = FirstConstructible(LoadChain(settings.ai))
     /\ cache.ai = lastLoad.inst

\* a PluginLoader.load call has just ended
LoadEnded == JustLoaded(lastLoad) \/ lastLoad.kind \in {"ConstructionError", "ValueError"}

\* C12: the caller never sees a candidate's own exception: generate_script
\* returns the result of the call that returned or raises the one error that
\* says all providers failed, after every call raised; PluginLoader.load of a
\* registered capability returns an instance or raises its own one error.
C12_NoRawCandidateError ==
  /\ Ended =>
       /\ outcome.kind \in {"ok", "RuntimeError"}
       /\ outcome.kind = "ok" =>
            /\ Len(calls) >= 1
            /\ calls[Len(calls)].res = "returned"
            /\ \A i \in 1..(Len(calls) - 1) : calls[i].res = "raised"
       /\ outcome.kind = "RuntimeError" =>
            /\ idx > Len(AiChain)
            /\ \A i \in 1..Len(calls) : calls[i].res = "raised"
            /\ outcome.tried = tried_providers
  /\ (LoadEnded /\ lastLoad.plugin_type \in DOMAIN PLUGIN_REGISTRY) =>
       /\ lastLoad.kind \in {"hit", "loaded", "RuntimeError"}
       /\ lastLoad.kind = "RuntimeError" =>
            \A i \in 1..Len(lastLoad.chain) : ~Constructs(lastLoad.chain[i])

\* an invocation in which a call raised and a later candidate could not be
\* constructed ended with the one error
C12_Witness ==
  /\ Ended
  /\ outcome.kind = "RuntimeError"
  /\ Len(calls) >= 1
  /\ Len(tried_providers) < Len(AiChain)
  /\ outcome.errors # <<>>

\* the calls of the invocation that raised
RaisedCalls == {i \in 1..Len(calls) : calls[i].res = "raised"}

\* C13: whatever the error of a call is classified as, the step that handles
\* it does the same: it moves on to the next position of the chain and leaves
\* the wrapper, the cache, the settings and the history alone; only the report
\* differs.
C13_EveryErrorAdvances ==
  [][(pc = "calling" /\ pc' = "loop") =>
        /\ idx' = idx + 1
        /\ UNCHANGED <<w, cache, settings, tried_providers, outcome>>
        /\ calls'[Len(calls')].report \in {"quota exceeded", "warning"}]_vars

\* one invocation handled an error reported as quota and one reported as a
\* warning, and went on after both
C13_Witness ==
  /\ Ended
  /\ \E i, j \in RaisedCalls :
       /\ calls[i].report = "quota exceeded"
       /\ calls[j].report = "warning"
       /\ i < j

\* the letters a and b are equal up to case, b being lower case or no letter
SameFolded(a, b) ==
  a = b \/ \E k \in 1..Len(UpperCase) : UpperCase[k] = a /\ LowerCase[k] = b

\* msg contains x when case is ignored
ContainsFolded(msg, x) ==
  \E k \in 0..(Len(msg) - Len(x)) : \A j \in 1..Len(x) : SameFolded(msg[k + j], x[j])

\* the substrings the claim names
ClaimedMarkers ==
  { <<"q", "u", "o", "t", "a">>,
    <<"r", "a", "t", "e", " ", "l", "i", "m", "i", "t">>,
    <<"4", "2", "9">>,
    <<"r", "e", "s", "o", "u", "r", "c", "e", " ", "e", "x", "h", "a", "u", "s", "t", "e", "d">> }

\* the substrings that do decide
DecidingMarkers ==
  (ClaimedMarkers \ { <<"r", "e", "s", "o", "u", "r", "c", "e", " ", "e", "x", "h", "a", "u", "s", "t", "e", "d">> })
    \cup { <<"t", "o", "o", " ", "m", "a", "n", "y", " ", "r", "e", "q", "u", "e", "s", "t", "s">>,
           <<"r", "e", "s", "o", "u", "r", "c", "e", "_", "e", "x", "h", "a", "u", "s", "t", "e", "d">>,
           <<"e", "x", "c", "e", "e", "d", "e", "d">> }

\* C14 as stated: an error is reported as quota exactly when its message,
\* case ignored, contains "quota", "rate limit", "429" or "resource exhausted".
C14_TransientIffClaimedMarker ==
  \A i \in RaisedCalls :
    calls[i].report = "quota exceeded"
      <=> \E x \in ClaimedMarkers : ContainsFolded(calls[i].msg, x)

\* C14 amended: every message, the empty one included, gets one of the two
\* labels; it is reported as quota exactly when, case ignored, it contains
\* "quota", "rate limit", "429", "too many requests", "resource_exhausted" or
\* "exceeded"; so a message with "429" or "rate limit" in any case is quota
\* and a message with none of the substrings is not.
C14_TransientIffDecidingMarker ==
  \A i \in RaisedCalls :
    /\ calls[i].report \in {"quota exceeded", "warning"}
    /\ calls[i].report = "quota exceeded"
         <=> \E x \in DecidingMarkers : ContainsFolded(calls[i].msg, x)
    /\ (\/ ContainsFolded(calls[i].msg, <<"4", "2", "9">>)
        \/ ContainsFolded(calls[i].msg, <<"r", "a", "t", "e", " ", "l", "i", "m", "i", "t">>))
         => calls[i].report = "quota exceeded"

\* a message written with capitals that has none of the claimed substrings
\* was reported as quota
C14_Witness ==
  \E i \in RaisedCalls :
    /\ calls[i].report = "quota exceeded"
    /\ ContainsFolded(calls[i].msg, <<"e", "x", "c", "e", "e", "d", "e", "d">>)
    /\ ~Contains(calls[i].msg, <<"e", "x", "c", "e", "e", "d", "e", "d">>)
    /\ ~\E x \in ClaimedMarkers : ContainsFolded(calls[i].msg, x)

\* C15: the candidates are taken in chain order and one at a time: every call
\* is made on the candidate at its position, positions only grow, a call at a
\* later position is made only after every earlier call has raised, no call
\* follows one that returned, at most one call is in progress, and a load
\* constructs a candidate only after all candidates before it failed to
\* construct.
C15_InOrderOneAtATime ==
  /\ \A i \in 1..Len(calls) :
       /\ calls[i].pos \in 1..Len(AiChain)
       /\ calls[i].cand = AiChain[calls[i].pos]
       /\ calls[i].pos <= idx
       /\ i < Len(calls) =>
            /\ calls[i].res = "raised"
            /\ calls[i].pos < calls[i + 1].pos
       /\ calls[i].res = "pending" => (i = Len(calls) /\ pc = "calling")
  /\ pc = "loop" => \A i \in 1..Len(calls) : calls[i].res = "raised" /\ calls[i].pos < idx
  /\ pc = "calling" => (Len(calls) >= 1 /\ calls[Len(calls)].res = "pending"
                          /\ calls[Len(calls)].pos = idx)
  /\ tried_providers = [i \in 1..Len(calls) |-> calls[i].cand]
  /\ lastLoad.kind = "loaded" =>
       /\ lastLoad.inst.cls = lastLoad.chain[lastLoad.visited]
       /\ \A j \in 1..(lastLoad.visited - 1) : ~Constructs(lastLoad.chain[j])

\* three candidates were called one after the other and the third returned
C15_Witness ==
  /\ Ended
  /\ Len(calls) = 3
  /\ calls[1].res = "raised" /\ calls[2].res = "raised" /\ calls[3].res = "returned"

\* the object an instance record stands for
Identity(inst) == <<inst.cls, inst.id>>

\* C16: while threads load, reload and invalidate the ai capability at the
\* same time, the cache entry is absent or an instance whose constructor has
\* returned, what a load returns is such an instance, the object a
\* constructor is still working on is neither in the cache nor held by any
\* caller, and a store leaves the stored instance as the entry.
C16_OnlyConstructedInstancesSeen ==
  /\ [](/\ cache.ai = NoInst \/ cache.ai.ok
        /\ \A t \in Threads :
             /\ thr[t].pc = "returned" => (thr[t].ret # NoInst /\ thr[t].ret.ok)
             /\ thr[t].pc = "ctor" =>
                  /\ ~thr[t].obj.ok
                  /\ Identity(cache.ai) # Identity(thr[t].obj)
                  /\ \A u \in Threads : Identity(thr[u].ret) # Identity(thr[t].obj))
  /\ [][\A t \in Threads :
          (thr[t].pc = "ctor" /\ thr'[t].pc = "returned") => cache'.ai = thr'[t].ret]_vars

\* one thread is inside a constructor while the other holds the instance it
\* was returned and the cache holds an instance
C16_Witness ==
  \E t, u \in Threads :
    /\ thr[t].pc = "ctor"
    /\ thr[u].pc = "returned"
    /\ thr[u].force
    /\ InCache(cache, "ai")

\* C17: one instance per capability: whenever the wrapper holds a provider
\* and the cache has an ai entry, the two are the same object.
C17_WrapperHoldsTheCachedInstance ==
  (w.exists /\ w.cur # NoInst /\ InCache(cache, "ai")) => cache.ai = w.cur

\* the calls of the invocation made on an instance of class n
CallsOn(n) == {i \in 1..Len(calls) : calls[i].cls = n}

\* the chain is openai, groq, huggingface; openai cannot be constructed, the
\* others can; every call of groq raised "429 Too Many Requests" and every
\* call of huggingface returned
ThreeProviderScenario ==
  /\ Ended
  /\ AiChain = <<"openai", "groq", "huggingface">>
  /\ ~Constructs("openai") /\ Constructs("groq") /\ Constructs("huggingface")
  /\ \A i \in CallsOn("groq") : calls[i].res = "raised" /\ calls[i].msg = TooManyRequests
  /\ \A i \in CallsOn("huggingface") : calls[i].res = "returned"

\* C18: in that scenario the invocation returns huggingface's result, names
\* openai, groq and huggingface as tried, reports groq's error as quota, and
\* has called groq's operation exactly once, openai never having been called.
C18_ThreeProviderScenario ==
  ThreeProviderScenario =>
    /\ outcome.kind = "ok"
    /\ outcome.by = "huggingface"
    /\ outcome.tried = <<"openai", "groq", "huggingface">>
    /\ \A i \in CallsOn("groq") : calls[i].report = "quota exceeded"
    /\ Cardinality(CallsOn("groq")) = 1
    /\ Len(calls) = 2

\* C19: a tts call, whose chain is gtts alone, ends for its caller with the
\* audio or with the one error that says all providers failed and names the
\* one provider tried, never with the provider's own exception.
C19_TtsFailureIsAggregated ==
  pc = "tts_done" =>
    /\ outcome.kind \in {"ok", "RuntimeError"}
    /\ outcome.kind = "RuntimeError" => outcome.tried = <<"gtts">>

\* a PluginLoader.load_specific call has just ended
SpecificEnded ==
  lastLoad.kind \in {"specific_unknown_type", "specific_unknown_provider",
                     "specific_returned", "specific_raised"}

\* C20: load_specific of an unregistered capability ends with the
\* unknown-type error, of a name the capability does not register with the
\* unknown-provider error, in both cases with no constructor run and no
\* instance; otherwise exactly the constructor of that name is run; and no
\* load_specific call changes the cache or returns the cached object.
C20_LoadSpecificNoRetryNoCache ==
  /\ [](SpecificEnded =>
          LET plugin_type == lastLoad.plugin_type
              provider_name == lastLoad.chain[1]
          IN  /\ plugin_type \notin DOMAIN PLUGIN_REGISTRY =>
                   /\ lastLoad.kind = "specific_unknown_type"
                   /\ lastLoad.visited = 0 /\ lastLoad.inst = NoInst
              /\ (/\ plugin_type \in DOMAIN PLUGIN_REGISTRY
                  /\ provider_name \notin PLUGIN_REGISTRY[plugin_type]) =>
                   /\ lastLoad.kind = "specific_unknown_provider"
                   /\ lastLoad.visited = 0 /\ lastLoad.inst = NoInst
              /\ lastLoad.kind \in {"specific_returned", "specific_raised"} =>
                   /\ provider_name \in PLUGIN_REGISTRY[plugin_type]
                   /\ lastLoad.visited = 1
                   /\ lastLoad.kind = "specific_returned" <=> Constructs(provider_name)
              /\ lastLoad.kind = "specific_returned" =>
                   /\ lastLoad.inst.cls = provider_name
                   /\ Identity(lastLoad.inst) # Identity(cache[plugin_type]))
  /\ [][(lastLoad'.kind \in {"specific_unknown_type", "specific_unknown_provider",
                             "specific_returned", "specific_raised"})
          => cache' = cache]_vars

\* load_specific was asked for a name ai does not register while the cache
\* held an ai instance, which is still there
C20_Witness ==
  /\ lastLoad.kind = "specific_unknown_provider"
  /\ lastLoad.plugin_type = "ai"
  /\ lastLoad.hadEntry
  /\ InCache(cache, "ai")

\* C21: a load of ai returns the cached instance only when no reload is
\* forced and the instance is of the configured provider; every other load
\* that returns an instance has constructed it and left it in the cache.
C21_ReuseOnlyMatchingInstance ==
  (JustLoaded(lastLoad) /\ lastLoad.plugin_type = "ai") =>
     /\ lastLoad.kind = "hit" =>
          /\ ~lastLoad.force
          /\ lastLoad.inst.cls = settings.ai.provider
     /\ lastLoad.kind = "loaded" => cache.ai = lastLoad.inst

\* the iteration about to run constructs the candidate at idx, and that
\* construction fails: the candidate is not the one the wrapper holds, it is
\* loaded by a forced load or by a load that finds no entry, and its name is
\* unregistered or its constructor raises
ConstructionFailsNow ==
  /\ pc = "loop"
  /\ idx <= Len(AiChain)
  /\ w.cur_name # AiChain[idx]
  /\ AiChain[idx] = w.primary_provider_name => ~InCache(cache, "ai")
  /\ ~Constructs(AiChain[idx])

\* C22: the iteration in which the construction of candidate i fails puts
\* the candidate into the attempt history, moves on to i+1 and makes no call
\* of any provider's operation.
C22_ConstructionFailureRecordedNoCall ==
  [][ConstructionFailsNow =>
       /\ idx' = idx + 1
       /\ pc' = "loop"
       /\ calls' = calls
       /\ tried_providers' = Append(tried_providers, AiChain[idx])]_vars

\* C23: the configuration is read when it is needed: the chain an invocation
\* of generate_script starts with is the one the current ai.provider and
\* ai.fallback give, the wrapper's settings object is the one PluginLoader
\* reads, and a load that constructs goes through the chain of the current
\* values.
C23_ConfigReadAtEachResolution ==
  /\ [][(pc = "idle" /\ pc' = "loop") =>
          /\ w'.providers_to_try = WrapperChain(settings.ai)
          /\ w'.primary_provider_name = settings.ai.provider
          /\ w'.settings_current]_vars
  /\ [](LoadBuiltChain => lastLoad.chain = LoadChain(settings[lastLoad.plugin_type]))

\* C24: a call that was cancelled is the last call of its invocation: the
\* invocation has ended with the cancellation as what the caller gets, the
\* loop has not moved past the cancelled candidate, nothing was loaded or
\* called after it, and the cancellation is not the last error of the history.
C24_CancellationEndsInvocation ==
  \A i \in 1..Len(calls) :
    calls[i].res = "cancelled" =>
      /\ i = Len(calls)
      /\ pc = "done"
      /\ outcome.kind = "CancelledError"
      /\ idx = calls[i].pos
      /\ last_error.kind # "CancelledError"
      /\ w.cur_name = calls[i].cand
      /\ Identity(w.cur) = <<calls[i].cls, calls[i].id>>

\* an invocation was cancelled in its second call with a candidate left
C24_Witness ==
  /\ Ended
  /\ outcome.kind = "CancelledError"
  /\ Len(calls) = 2
  /\ calls[1].res = "raised"
  /\ idx < Len(AiChain)

C26_InvocationRestoresProvider ==
  [][(pc \in {"loop", "calling"}) => (settings'.ai.provider = settings.ai.provider)]_vars

\* C27: a PluginLoader.load that ends with its exhausted error leaves the
\* cache as it was, the entry of its own capability included, and a load of
\* one capability never changes the entry of another.
C27_FailedLoadKeepsCache ==
  [][JustLoaded(lastLoad') =>
       /\ lastLoad'.kind \in {"RuntimeError", "AttributeError"} => cache' = cache
       /\ \A k \in CacheKeys \ {lastLoad'.plugin_type} : cache'[k] = cache[k]]_vars

\* a forced load of ai found nothing that constructs while the cache held an
\* ai instance and a tts instance; both are still there
C27_Witness ==
  /\ lastLoad.kind = "RuntimeError"
  /\ lastLoad.plugin_type = "ai"
  /\ lastLoad.force
  /\ lastLoad.hadEntry
  /\ InCache(cache, "ai")
  /\ InCache(cache, "tts")

\* C28: an invocation of generate_script that has started ends, with a
\* result or with the error that all providers failed, having called at most
\* as many operations as its chain has names; and a PluginLoader.load ends
\* having gone at most once through each name of its chain.
C28_InvocationTerminates ==
  /\ (pc \in {"loop", "calling"}) ~> (pc = "done")
  /\ [](Len(calls) <= Len(AiChain))
  /\ [](Ended => (/\ outcome.kind \in {"ok", "RuntimeError"}
                  /\ outcome.kind = "RuntimeError" => idx = Len(AiChain) + 1))
  /\ [](JustLoaded(lastLoad) => lastLoad.visited <= Len(lastLoad.chain))

\* an invocation ended after one call for each of the three names of its chain
C28_Witness ==
  /\ Ended
  /\ Len(AiChain) = 3
  /\ Len(calls) = 3
  /\ outcome.kind = "RuntimeError"

\* thread t is back from a load without force_reload that found no entry
\* and went through the chain
ReturnedFromMiss(t) ==
  /\ thr[t].pc = "returned"
  /\ ~thr[t].force
  /\ thr[t].chain # <<>>

\* C29: two threads that are both back from a load without force_reload
\* which found the ai entry absent hold the same instance, the one in the
\* cache: only one was constructed.
C29_ConcurrentLoadsShareInstance ==
  \A t, u \in Threads :
    (t # u /\ ReturnedFromMiss(t) /\ ReturnedFromMiss(u)) =>
       /\ thr[t].ret = thr[u].ret
       /\ cache.ai = thr[t].ret

====
